---- MODULE Spec2Model ----
(***************************************************************************)
(* Model of hvsum's result cache (CacheManager), of the cached single      *)
(* search (SearchManager.Search), of the parallel search batch             *)
(* (SearchManager.PerformParallelSearches) and of the end of an            *)
(* interactive session (StartInteractiveSession / handleSessionExit).      *)
(*                                                                         *)
(* Four specifications share the variables:                                *)
(*   Spec         the cache directory under any sequence of cache calls,   *)
(*                with a clock;                                            *)
(*   SessionSpec  one interactive session: the main loop, the signal       *)
(*                goroutine and the exit dialogue;                         *)
(*   SearchSpec   one PerformParallelSearches batch, goroutine by          *)
(*                goroutine;                                               *)
(*   FileSpec     cache calls running concurrently on one entry file,      *)
(*                file operation by file operation.                        *)
(***************************************************************************)
EXTENDS Integers, Sequences, FiniteSets, TLC

\* ------------------------------------------------------------------ bounds

\* The clock counts whole hours and stops at MaxHours. Every age is compared
\* (with >) to a whole number of hours only, so an age between two whole
\* hours behaves as the next whole hour does.
MaxHours == 3

\* config.CacheTTL, in hours, of the configuration the model runs under.
CacheTTL == 2

\* "Also clean pending entries older than 1 hour"
PendingGraceHours == 1

\* ------------------------------------------------------------- value sets

\* Session identifiers; "" is "no session".
NoSession == ""
SessionIDs == {"S1", "S2"}
AnySession == SessionIDs \cup {NoSession}

\* Payloads handed to Set.
Values == {"v1", "v2"}

\* Strings are sequences of characters. A search query is a string; the
\* per-query limit of the callers is a number.
Queries == {<<"q">>}
Limits == {3}

\* the %d verb of fmt.Sprintf on a number that is not negative
DecimalDigit == <<"0", "1", "2", "3", "4", "5", "6", "7", "8", "9">>
RECURSIVE Decimal(_)
Decimal(n) ==
    IF n < 10 THEN <<DecimalDigit[n + 1]>>
    ELSE Decimal(n \div 10) \o <<DecimalDigit[(n % 10) + 1]>>

\* a descriptor that runs the query and the limit together
SearchDescriptor_NoSeparator(q, lim) == <<"search:">> \o q \o Decimal(lim)

\* Request descriptors: fmt.Sprintf("search:%s:%d", query, limit) (the fixed
\* prefix is one symbol) and the "qa:..." descriptor of
\* generateEnhancedResponse.
SearchDescriptor(q, lim) == <<"search:">> \o q \o <<":">> \o Decimal(lim)
QADescriptors == {<<"qa", "x">>}
Descriptors == QADescriptors \cup {SearchDescriptor(q, lim) : q \in Queries, lim \in Limits}

\* GetCacheKey: the md5 fingerprint of the descriptor. The hash is modelled as
\* collision-free on the descriptors of the model: a key is named by the
\* descriptor it fingerprints.
GetCacheKey(d) == <<"md5", d>>
Keys == {GetCacheKey(d) : d \in Descriptors}

VARIABLES
    \* --- the cache directory and its configuration
    store,          \* the entry files: a function from the keys present to CacheEntry
    now,            \* the clock, in hours
    cacheEnabled,   \* config.CacheEnabled
    \* --- history of the cache calls (not program state)
    written,        \* per key: the latest successful Set and what was called on it since
    last,           \* what the last call returned, when it was a Get or a Search
    \* --- the interactive session
    sessionID,      \* session.ID
    persist,        \* config.SessionPersist
    pc,             \* position of the main, the signal and the startup-sweep goroutine
    rlClosed,       \* rl.Close() has run
    sessKeys,       \* history: keys written by this session under its ID
    calls,          \* history: the commit/discard calls the session made, in order
    exitReturn,     \* history: how handleSessionExit returned, in the step it returns
    messages,       \* session.Messages
    added,          \* history: number of AddMessage calls made on the session
    \* --- one PerformParallelSearches batch
    gpc,            \* position of each query's goroutine
    semaphore,      \* number of tokens in the semaphore channel
    mu,             \* holder of the mutex, or 0
    allResults,     \* the shared slice
    dispatched,     \* number of goroutines started by the loop
    batchResult,    \* <<"off">>, <<"running">>, or <<"returned", the slice returned>>
    searchReturn,   \* per goroutine: what sm.Search returned (results, err)
    snapshot,       \* per goroutine: the slice that append read
    \* --- cache calls running concurrently, file operation by file operation
    fpc,            \* position of each concurrent cache call
    floc,           \* its local variables: directory listing, file name, entries
    observed        \* history: what the last os.ReadFile returned

cacheVars == <<store, now, cacheEnabled, written, last>>
sessionVars == <<sessionID, persist, pc, rlClosed, sessKeys, calls, exitReturn, messages, added>>
searchVars == <<gpc, semaphore, mu, allResults, dispatched, batchResult, searchReturn, snapshot>>
fileVars == <<fpc, floc, observed>>
vars == <<cacheVars, sessionVars, searchVars, fileVars>>

\* ================================================================ the cache
\* One file per entry, <cacheDir>/<key>.json, holding a CacheEntry.

\* an entry that keeps the session tag but is never pending
CacheEntry_NeverPending(v, t, ttl, s) ==
    [data |-> v, ts |-> t, ttl |-> ttl, sid |-> s, pending |-> FALSE]

\* an entry that is pending whatever the session
CacheEntry_AlwaysPending(data, ts, ttl, sid) ==
    [data |-> data, ts |-> ts, ttl |-> ttl, sid |-> sid, pending |-> TRUE]

\* CacheEntry as Set builds it: Pending is set iff a session is given.
CacheEntry(data, ts, ttl, sid) ==
    [data |-> data, ts |-> ts, ttl |-> ttl, sid |-> sid, pending |-> sid # NoSession]

\* A file that is not the JSON of a CacheEntry: an empty file or the
\* beginning of an entry, as os.WriteFile leaves it when it fails, or is
\* interrupted, after truncating the file.
CorruptFile == [data |-> "garbage", ts |-> 0, ttl |-> 0, sid |-> NoSession, pending |-> FALSE]

\* a decoder that accepts any file content
Unmarshals_Anything(f) == TRUE

\* json.Unmarshal(data, &entry) == nil
Unmarshals(f) == f # CorruptFile

\* time.Since(entry.Timestamp).Hours() > float64(entry.TTL)
Expired(e, t) == (t - e.ts) > e.ttl

\* a sweep that knows no grace period
PendingStale_Never(e, t) == FALSE

\* cacheEntry.Pending && time.Since(cacheEntry.Timestamp).Hours() > 1
PendingStale(e, t) == e.pending /\ (t - e.ts) > PendingGraceHours

\* a removal that passes over the files that do not parse
Remove_KeepsCorrupt(st, ks) ==
    [k \in (DOMAIN st) \ {x \in ks \cap DOMAIN st : st[x] # CorruptFile} |-> st[k]]

\* os.Remove of the files of the keys ks
Remove(st, ks) == [k \in (DOMAIN st) \ ks |-> st[k]]

\* a write that leaves an existing file alone
WriteFile_KeepsExisting(st, k, e) ==
    [x \in (DOMAIN st) \cup {k} |-> IF x \in DOMAIN st THEN st[x] ELSE e]

\* os.WriteFile of the file of key k
WriteFile(st, k, e) == [x \in (DOMAIN st) \cup {k} |-> IF x = k THEN e ELSE st[x]]

EmptyStore == [k \in {} |-> CacheEntry("v1", 0, 1, NoSession)]

GetFound_IgnoresTTL(st, k, t) == k \in DOMAIN st /\ Unmarshals(st[k])

\* a lookup that never finds anything
GetFound_NeverHits(st, k, t) == FALSE

\* Get, its result: the file exists and is not expired. The payload is
\* re-marshalled into the caller's target; every caller reads a key with the
\* target type it writes under that key's descriptor prefix, so the
\* conversion succeeds and yields the payload.
GetFound(st, k, t) == k \in DOMAIN st /\ Unmarshals(st[k]) /\ ~Expired(st[k], t)

\* a Get that also removes a pending entry past the grace period
GetStore_RemovesStalePending(st, k, t) ==
    IF k \in DOMAIN st /\ Unmarshals(st[k]) /\ (Expired(st[k], t) \/ PendingStale(st[k], t))
    THEN Remove(st, {k}) ELSE st

\* Get, its effect on the directory: an expired entry is removed.
GetStore(st, k, t) ==
    IF k \in DOMAIN st /\ Unmarshals(st[k]) /\ Expired(st[k], t) THEN Remove(st, {k}) ELSE st

\* commit as in the earlier revision: the session tag stays on the entry
CommitStore_KeepsSessionID(st, s) ==
    [k \in DOMAIN st |->
        IF st[k].sid = s /\ st[k].pending THEN [st[k] EXCEPT !.pending = FALSE] ELSE st[k]]

\* commit that does not compare the session
CommitStore_AnySession(st, s) ==
    [k \in DOMAIN st |->
        IF st[k].pending THEN [st[k] EXCEPT !.pending = FALSE, !.sid = NoSession] ELSE st[k]]

\* commit that stops after the first entry it commits
CommitStore_FirstOnly(st, s) ==
    LET m == {k \in DOMAIN st : st[k].sid = s /\ st[k].pending}
    IN  IF m = {} THEN st
        ELSE LET k0 == CHOOSE k \in m : TRUE
             IN  [st EXCEPT ![k0] = [st[k0] EXCEPT !.pending = FALSE, !.sid = NoSession]]

\* a round trip that loses the payload
Remarshal_Lossy(data) == "v1"

\* json.Unmarshal of an entry into CacheEntry (Data interface{}) followed by
\* json.Marshal, on its payload. The payloads the program stores are strings,
\* lists of strings and lists of SearchResult, which has string fields only:
\* they decode to string, []interface{} and map[string]interface{} and encode
\* to the same JSON value (no number is involved, so none is widened).
Remarshal(data) == data

\* CommitSessionCache, the loop over the directory.
CommitStore(st, s) ==
    [k \in DOMAIN st |->
        IF Unmarshals(st[k]) /\ st[k].sid = s /\ st[k].pending
        THEN [st[k] EXCEPT !.data = Remarshal(@), !.pending = FALSE, !.sid = NoSession]
        ELSE st[k]]

\* CommitSessionCache: nothing when the cache is disabled or sessionID is "".
CommitResult(st, enabled, s) ==
    IF ~enabled \/ s = NoSession THEN st ELSE CommitStore(st, s)

\* discard without the test for the empty session
DiscardResult_NoEmptyTest(st, enabled, s) ==
    IF ~enabled THEN st ELSE Remove(st, {k \in DOMAIN st : Unmarshals(st[k]) /\ st[k].sid = s})

\* discard that skips the pending entries
DiscardStore_SkipsPending(st, s) ==
    Remove(st, {k \in DOMAIN st : st[k].sid = s /\ ~st[k].pending})

\* ClearSessionCache, the loop over the directory.
DiscardStore(st, s) == Remove(st, {k \in DOMAIN st : Unmarshals(st[k]) /\ st[k].sid = s})

\* ClearSessionCache: nothing when the cache is disabled or sessionID is "".
DiscardResult(st, enabled, s) ==
    IF ~enabled \/ s = NoSession THEN st ELSE DiscardStore(st, s)

\* CleanExpired, the loop over the directory.
SweepStore(st, t) ==
    Remove(st, {k \in DOMAIN st :
                   Unmarshals(st[k]) /\ (Expired(st[k], t) \/ PendingStale(st[k], t))})

\* How os.WriteFile (or the json.Marshal before it) may end: the file is
\* written; nothing is written (the marshalling or the open fails); or the
\* file is truncated and the write fails.
WriteOutcomes == {"ok", "refused", "partial"}

\* the directory after a write of entry e to the file of k that ended as w
WriteResult(st, k, e, w) ==
    CASE w = "ok"      -> WriteFile(st, k, e)
      [] w = "refused" -> st
      [] w = "partial" -> WriteFile(st, k, CorruptFile)

\* a Set that writes whether or not the cache is enabled
SetResult_IgnoresEnabled(st, enabled, k, v, s, t, ttl, w) ==
    WriteResult(st, k, CacheEntry(v, t, ttl, s), w)

\* Set: the directory after Set(k, v, s) at time t with configured TTL ttl,
\* when its write ends as w; nothing when the cache is disabled.
SetResult(st, enabled, k, v, s, t, ttl, w) ==
    IF enabled THEN WriteResult(st, k, CacheEntry(v, t, ttl, s), w) ELSE st

\* ---------------------------------------------------- history of the calls
\* written[k]: the latest Set that wrote k (value, time, ttl, sid), then
\*   fate: which of commit(sid) / discard(sid) has been called since
\*         ("live": neither; "committed"; "discarded"; "committed_discarded":
\*          commit first, discard after it),
\*   gone: whether the entry has since been removed by a sweep ("swept"),
\*         by Clear ("cleared") or by a read after its TTL ("expired"), or
\*         destroyed by a write that failed half-way ("corrupted").
NeverWritten ==
    [value |-> "none", time |-> 0, ttl |-> 0, sid |-> NoSession, fate |-> "none", gone |-> "no"]

NewWrite(v, t, ttl, s) ==
    [value |-> v, time |-> t, ttl |-> ttl, sid |-> s, fate |-> "live", gone |-> "no"]

Tracked(w) == w.fate # "none" /\ w.gone = "no"

\* last: the operation, and for a Get or a Search whether it was a cache hit,
\* the payload returned and whether an error was returned; for a Search also
\* whether the engine was called (engine) and whether the cache write it made
\* failed (wfail); for a Set what was under the key before it (prev); for a
\* commit or a discard whether it was called with the empty session (prev).
NoKey == <<"none">>
NoCall == [op |-> "none", key |-> NoKey, found |-> FALSE, value |-> "none", err |-> FALSE,
           engine |-> FALSE, wfail |-> FALSE, prev |-> "none"]

\* what is under key k, as seen by a Set made for session s: no file, an
\* entry pending for another session, or any other file
Before(st, k, s) ==
    CASE k \notin DOMAIN st                                        -> "absent"
      [] Unmarshals(st[k]) /\ st[k].pending /\ st[k].sid # s       -> "pending_other"
      [] OTHER                                                     -> "present"
\* the session argument of a commit or a discard, as the history keeps it
SessionArg(s) == IF s = NoSession THEN "empty_session" ELSE "none"

Call(op, found, v, err) == [NoCall EXCEPT !.op = op, !.found = found, !.value = v, !.err = err]
Answer(op, k, found, v, err) == [Call(op, found, v, err) EXCEPT !.key = k]

\* the entries a call removed are marked with how (what they held is forgotten)
MarkGone(w, stBefore, stAfter, how) ==
    [k \in Keys |->
        IF Tracked(w[k]) /\ k \in DOMAIN stBefore /\ k \notin DOMAIN stAfter
        THEN [NeverWritten EXCEPT !.gone = how] ELSE w[k]]

\* the history of k after a write of (v, t, ttl, s) that ended as outcome
\* (no history is kept of a key outside Keys)
MarkWrite(w, k, v, t, ttl, s, outcome) ==
    CASE k \notin DOMAIN w    -> w
      [] outcome = "ok"      -> [w EXCEPT ![k] = NewWrite(v, t, ttl, s)]
      [] outcome = "refused" -> w
      [] outcome = "partial" -> [w EXCEPT ![k] = [NeverWritten EXCEPT !.gone = "corrupted"]]

MarkCommit(w, s) ==
    [k \in Keys |->
        IF Tracked(w[k]) /\ s # NoSession /\ w[k].sid = s /\ w[k].fate = "live"
        THEN [w[k] EXCEPT !.fate = "committed"] ELSE w[k]]

MarkDiscard(w, s) ==
    [k \in Keys |->
        IF Tracked(w[k]) /\ s # NoSession /\ w[k].sid = s /\ w[k].fate \in {"live", "committed"}
        THEN IF w[k].fate = "live"
             THEN [NeverWritten EXCEPT !.sid = s, !.fate = "discarded"]
             ELSE [w[k] EXCEPT !.fate = "committed_discarded"]
        ELSE w[k]]

\* ------------------------------------------------------------ cache actions

Tick ==
    /\ now < MaxHours
    /\ now' = now + 1
    /\ last' = NoCall
    /\ UNCHANGED <<store, cacheEnabled, written, sessionVars, fileVars, searchVars>>

\* CacheManager.Get(key, target)
Get(k) ==
    /\ store' = IF cacheEnabled THEN GetStore(store, k, now) ELSE store
    /\ LET found == cacheEnabled /\ GetFound(store, k, now)
       IN last' = Answer("get", k, found, IF found THEN store[k].data ELSE "none", FALSE)
    /\ written' = MarkGone(written, store, store', "expired")
    /\ UNCHANGED <<now, cacheEnabled, sessionVars, fileVars, searchVars>>

\* CacheManager.Set(key, data, sessionID): returns the error of the write
Set(k, v, s) ==
    \E w \in IF cacheEnabled THEN WriteOutcomes ELSE {"ok"} :
        /\ store' = SetResult(store, cacheEnabled, k, v, s, now, CacheTTL, w)
        /\ written' = IF cacheEnabled
                      THEN MarkWrite(written, k, v, now, CacheTTL, s, w)
                      ELSE written
        /\ last' = [Call("set", FALSE, "none", cacheEnabled /\ w # "ok")
                       EXCEPT !.prev = Before(store, k, s)]
        /\ UNCHANGED <<now, cacheEnabled, sessionVars, fileVars, searchVars>>

\* CacheManager.CleanExpired()
CleanExpired ==
    /\ store' = IF cacheEnabled THEN SweepStore(store, now) ELSE store
    /\ written' = MarkGone(written, store, store', "swept")
    /\ last' = Call("sweep", FALSE, "none", FALSE)
    /\ UNCHANGED <<now, cacheEnabled, sessionVars, fileVars, searchVars>>

\* CacheManager.Clear(): no CacheEnabled test
Clear ==
    /\ store' = Remove(store, DOMAIN store)
    /\ written' = MarkGone(written, store, store', "cleared")
    /\ last' = Call("clear", FALSE, "none", FALSE)
    /\ UNCHANGED <<now, cacheEnabled, sessionVars, fileVars, searchVars>>

\* CacheManager.CommitSessionCache(sessionID)
CommitSessionCache(s) ==
    /\ store' = CommitResult(store, cacheEnabled, s)
    /\ written' = MarkCommit(written, s)
    /\ last' = [Call("commit", FALSE, "none", FALSE) EXCEPT !.prev = SessionArg(s)]
    /\ UNCHANGED <<now, cacheEnabled, sessionVars, fileVars, searchVars>>

\* CacheManager.ClearSessionCache(sessionID)
ClearSessionCache(s) ==
    /\ store' = DiscardResult(store, cacheEnabled, s)
    /\ written' = MarkDiscard(written, s)
    /\ last' = [Call("discard", FALSE, "none", FALSE) EXCEPT !.prev = SessionArg(s)]
    /\ UNCHANGED <<now, cacheEnabled, sessionVars, fileVars, searchVars>>

\* What the search engine may answer: an error, an empty list with no error,
\* or a non-empty result list (a payload).
ProviderAnswers == {"err", "empty"} \cup Values

\* a search that caches whatever the engine answered
Cacheable_Everything(a) == TRUE

\* err == nil and len(results) > 0: the answer is handed to cache.Set
Cacheable(a) == a \in Values

\* a search that returns the error of the cache write
SearchErr_ReturnsWriteError(a, w) == a = "err" \/ (a \in Values /\ w # "ok")

\* the error Search returns: the engine's. The error of cache.Set is dropped.
SearchErr(a, w) == a = "err"

\* SearchManager.Search(query, limit, sessionID): the cached single search,
\* with the engine's answer a and the outcome w of the cache write.
Search(q, lim, s, a) ==
    LET k == GetCacheKey(SearchDescriptor(q, lim))
        hit == cacheEnabled /\ GetFound(store, k, now)
        afterGet == IF cacheEnabled THEN GetStore(store, k, now) ELSE store
        writes == Cacheable(a) /\ cacheEnabled
    IN  /\ IF hit
           THEN /\ store' = store
                /\ written' = written
                /\ last' = Answer("search", k, TRUE, store[k].data, FALSE)
           ELSE \E w \in IF writes THEN WriteOutcomes ELSE {"ok"} :
                /\ store' = IF writes
                            THEN WriteResult(afterGet, k, CacheEntry(a, now, CacheTTL, s), w)
                            ELSE afterGet
                /\ written' = IF writes
                              THEN MarkWrite(MarkGone(written, store, afterGet, "expired"),
                                             k, a, now, CacheTTL, s, w)
                              ELSE MarkGone(written, store, afterGet, "expired")
                /\ last' = [Answer("search", k, FALSE,
                                   IF a \in Values /\ ~SearchErr(a, w) THEN a ELSE "none",
                                   SearchErr(a, w))
                               EXCEPT !.engine = TRUE, !.wfail = writes /\ w # "ok"]
        /\ UNCHANGED <<now, cacheEnabled, sessionVars, fileVars, searchVars>>

\* ------------------------------------------------ idle session, idle batch
Procs == {"main", "sig", "clean"}

\* Number of queries of the batch.
BatchSize == 5
Workers == 1..BatchSize

\* sm.Search has not returned yet in this goroutine
NotReturned == [state |-> "none", results |-> << >>]

\* return results, nil
Returned(results) == [state |-> "ok", results |-> results]

\* return nil, err
Failed == [state |-> "err", results |-> << >>]

\* ---------------------------------------------------- session messages
\* A message is api.Message{Role, Content}.  Contents are numbers so that the
\* order in which messages were added can be read off the list: 0 is the
\* Q&A system prompt, -t is the greeting "I'm ready to answer questions
\* about: " + title for title number t, and n >= 1 is the content handed to
\* the n-th AddMessage call.
Titles == 1..4

MaxAdded == 30

SystemPrompt == 0

Greeting(title) == 0 - title

Message(role, content) == [Role |-> role, Content |-> content]

\* SessionData.Messages as CreateSession builds it.
CreateSessionMessages(title) ==
    <<Message("system", SystemPrompt), Message("assistant", Greeting(title))>>

\* A nil session (sessions disabled) has no message list.
NoMessages == << >>

SystemKept == 2

RecentKept == 18

MessageLimit == 22

AddMessage_KeepsOldest(msgs, role, content) ==
    LET appended == Append(msgs, Message(role, content))
    IN  IF Len(appended) > MessageLimit
        THEN SubSeq(appended, 1, SystemKept)
                 \o SubSeq(appended, SystemKept + 1, SystemKept + RecentKept)
        ELSE appended

\* AddMessage on a non-nil session: append, and when more than 22 messages
\* are held keep Messages[:2] followed by the last 18.  The second append
\* writes into the array Messages[:2] still shares with the tail; the copy
\* is overlap-safe, so the values are those of the two slices.
AddMessage(msgs, role, content) ==
    LET appended == Append(msgs, Message(role, content))
    IN  IF Len(appended) > MessageLimit
        THEN SubSeq(appended, 1, SystemKept)
                 \o SubSeq(appended, Len(appended) - RecentKept + 1, Len(appended))
        ELSE appended

\* The Q&A loop adds the question as "user" and then the answer as
\* "assistant", so the role of a call follows from its number.
RoleOfCall(n) == IF n % 2 = 1 THEN "user" ELSE "assistant"

SessionIdle ==
    /\ sessionID = NoSession
    /\ persist = FALSE
    /\ pc = [p \in Procs |-> "off"]
    /\ rlClosed = FALSE
    /\ sessKeys = {}
    /\ calls = << >>
    /\ exitReturn = "none"
    /\ messages = NoMessages
    /\ added = 0

SearchIdle ==
    /\ gpc = [i \in Workers |-> "idle"]
    /\ semaphore = 0
    /\ mu = 0
    /\ allResults = << >>
    /\ dispatched = 0
    /\ batchResult = <<"off">>
    /\ searchReturn = [i \in Workers |-> NotReturned]
    /\ snapshot = [i \in Workers |-> << >>]

\* The cache calls that run concurrently: a Set, a Get, the startup
\* CleanExpired, a CommitSessionCache and a ClearSessionCache.
FileProcs == {"setter", "getter", "sweeper", "committer", "discarder"}

\* What os.ReadFile yields for a name that is not there (an error).
NoFile == [data |-> "absent", ts |-> 0, ttl |-> 0, sid |-> NoSession, pending |-> FALSE]

\* the locals of a cache call: entries (the directory listing still to
\* visit), filePath (the file at hand), data (what os.ReadFile returned) and
\* entryBytes / updatedData (what is to be written)
NoLocals == [entries |-> {}, filePath |-> NoKey, data |-> NoFile, bytes |-> NoFile]

NothingSeen == "nothing"

FileIdle ==
    /\ fpc = [p \in FileProcs |-> "off"]
    /\ floc = [p \in FileProcs |-> NoLocals]
    /\ observed = NothingSeen

\* ------------------------------------------------- specification: the cache
Init ==
    /\ store = EmptyStore
    /\ now = 0
    /\ cacheEnabled \in BOOLEAN
    /\ written = [k \in Keys |-> NeverWritten]
    /\ last = NoCall
    /\ SessionIdle
    /\ SearchIdle
    /\ FileIdle

Next ==
    \/ Tick
    \/ \E k \in Keys : Get(k)
    \/ \E k \in Keys, v \in Values, s \in AnySession : Set(k, v, s)
    \/ CleanExpired
    \/ Clear
    \/ \E s \in AnySession : CommitSessionCache(s)
    \/ \E s \in AnySession : ClearSessionCache(s)
    \/ \E q \in Queries, lim \in Limits, s \in AnySession, a \in ProviderAnswers : Search(q, lim, s, a)

Spec == Init /\ [][Next]_vars

\* ======================================================= claims on the cache

\* the entry Set wrote, as the history records it
AsWritten(w) == CacheEntry(w.value, w.time, w.ttl, w.sid)
AgeOf(w) == now - w.time
LifeOf(w) == w.ttl

\* C1 (TTL monotonicity): for an entry written by Set and since then neither
\* overwritten, committed, discarded, swept nor cleared, a Get of its key
\* before the TTL has elapsed is a hit that returns the written payload, and a
\* Get after the TTL has elapsed is a miss that removes the entry; no Get
\* ever returns an expired entry as a hit.
C1_TTLMonotonicity ==
    [][\A k \in Keys : (last'.op = "get" /\ Get(k)) =>
          /\ (written[k].fate = "live" /\ written[k].gone = "no") =>
                /\ AgeOf(written[k]) < LifeOf(written[k]) =>
                      (last'.found /\ last'.value = written[k].value)
                /\ AgeOf(written[k]) > LifeOf(written[k]) =>
                      (~last'.found /\ k \notin DOMAIN store')
          /\ last'.found =>
                (k \in DOMAIN store /\ now - store[k].ts <= store[k].ttl)
      ]_vars

\* C1 witness: a Get has just missed on an entry whose TTL had elapsed and
\* removed it.
C1_Witness ==
    /\ last.op = "get" /\ ~last.found
    /\ last.key \in Keys /\ written[last.key].gone = "expired"

\* C2 (commit, then discard): once Set(k, v, S) with a session S has been
\* followed by commit(S), the entry of k is the written one with pending
\* false and an empty sessionID, also after any later discard(S), and a Get
\* of k within the TTL returns v.
C2_CommittedSurvivesDiscard ==
    [][\A k \in Keys :
          /\ (written'[k].fate \in {"committed", "committed_discarded"} /\ written'[k].gone = "no") =>
                /\ k \in DOMAIN store'
                /\ store'[k] = [AsWritten(written'[k]) EXCEPT !.pending = FALSE, !.sid = NoSession]
          /\ (/\ last'.op = "get"
              /\ Get(k)
              /\ written[k].fate \in {"committed", "committed_discarded"}
              /\ written[k].gone = "no"
              /\ AgeOf(written[k]) <= LifeOf(written[k])) =>
                (last'.found /\ last'.value = written[k].value)
      ]_vars

\* C2 witness: set with a session, commit of that session, discard of that
\* session, and then a Get of the key that hit.
C2_Witness ==
    /\ last.op = "get" /\ last.found
    /\ last.key \in Keys
    /\ written[last.key].fate = "committed_discarded"
    /\ written[last.key].sid \in SessionIDs

\* C3 as stated: after discard(S), no Get of a key that was written with
\* sessionID S succeeds (whether or not commit(S) came before the discard).
C3_AsStated ==
    [][\A k \in Keys :
          (last'.op = "get" /\ written[k].fate \in {"discarded", "committed_discarded"} /\ Get(k))
              => ~last'.found
      ]_vars

\* C3 (discard completeness, amended): after discard(S), the entry of every
\* key whose latest write was made with sessionID S and was not committed
\* before the discard is gone, and a Get of such a key misses, until the key
\* is written again.
C3_DiscardCompleteness ==
    [][\A k \in Keys :
          /\ written'[k].fate = "discarded" => k \notin DOMAIN store'
          /\ (last'.op = "get" /\ written[k].fate = "discarded" /\ Get(k)) => ~last'.found
      ]_vars

\* C3 witness: a Get has just missed on a key that a session wrote and then
\* discarded.
C3_Witness ==
    /\ last.op = "get" /\ ~last.found
    /\ last.key \in Keys
    /\ written[last.key].fate = "discarded"
    /\ written[last.key].sid \in SessionIDs

\* C4 (pending isolation): a commit or a discard called with a session ID
\* leaves every pending entry of any other session in place and unchanged
\* (still pending, same session, same payload).
C4_PendingIsolation ==
    [][\A s \in AnySession :
          (last'.op \in {"commit", "discard"} /\ (CommitSessionCache(s) \/ ClearSessionCache(s))) =>
          \A k \in DOMAIN store :
              (store[k].pending /\ store[k].sid # s) =>
                  (k \in DOMAIN store' /\ store'[k] = store[k])
      ]_vars

\* C4 witness: a commit or discard of one session has just acted on that
\* session's entry while another session's entry is still pending.
C4_Witness ==
    /\ last.op \in {"commit", "discard"}
    /\ \E k1, k2 \in Keys :
          /\ k1 \in DOMAIN store /\ store[k1].pending
          /\ written[k2].fate \in {"committed", "discarded"}
          /\ written[k2].sid # store[k1].sid

\* C5 (commit idempotence): in every store state and for every session ID,
\* committing twice gives the same store as committing once.
C5_CommitIdempotent ==
    \A s \in AnySession :
        CommitResult(CommitResult(store, cacheEnabled, s), cacheEnabled, s)
            = CommitResult(store, cacheEnabled, s)

\* C5 witness: a store in which one session holds two pending entries, so
\* that one commit has to change both.
C5_Witness ==
    \E s \in SessionIDs :
        /\ \A k \in Keys : k \in DOMAIN store /\ store[k].pending /\ store[k].sid = s
        /\ CommitResult(store, cacheEnabled, s) # store

\* C6 (no cross-session reuse of a pending entry): a cached search made for
\* session s, or for no session, does not return as a hit an entry that is
\* pending for another session.
C6_PendingNotReused ==
    [][\A q \in Queries, lim \in Limits, s \in AnySession, a \in ProviderAnswers :
          LET k == GetCacheKey(SearchDescriptor(q, lim))
          IN  (/\ Search(q, lim, s, a)
               /\ k \in DOMAIN store
               /\ store[k].pending
               /\ store[k].sid # s) => ~last'.found
      ]_vars

\* the key of a search, and whether a usable entry is stored under it
SearchKey(q, lim) == GetCacheKey(SearchDescriptor(q, lim))
Usable(k) ==
    /\ cacheEnabled
    /\ k \in DOMAIN store
    /\ Unmarshals(store[k])
    /\ now - store[k].ts <= store[k].ttl

\* C15 (a hit does not call the engine): a Search whose key holds an entry
\* that has not expired returns the stored results with no error, without
\* calling the engine, and leaves the store as it was.
C15_HitSkipsProvider ==
    [][\A q \in Queries, lim \in Limits :
          (/\ last'.op = "search"
           /\ last'.key = SearchKey(q, lim)
           /\ Usable(SearchKey(q, lim))) =>
              /\ last'.found /\ ~last'.engine /\ ~last'.err
              /\ last'.value = store[SearchKey(q, lim)].data
              /\ store' = store
      ]_vars

\* C15 witness: a Search has just been answered from the cache.
C15_Witness ==
    /\ last.op = "search" /\ last.found /\ ~last.engine
    /\ last.value \in Values

\* C16 (a failure is not cached): a Search that misses and whose engine call
\* fails returns an error, one whose engine call returns nothing returns no
\* error, and either leaves in the store no file that was not there before
\* and none changed, so that no usable entry is under the key afterwards; and
\* every Search that finds no usable entry calls the engine.
C16_FailureNotCached ==
    [][\A q \in Queries, lim \in Limits :
          LET k == SearchKey(q, lim)
          IN  (last'.op = "search" /\ last'.key = k /\ ~Usable(k)) =>
                  /\ last'.engine
                  /\ \A s \in AnySession, a \in {"err", "empty"} :
                        (last'.value = "none" /\ Search(q, lim, s, a)) =>
                            /\ last'.err = (a = "err")
                            /\ \A x \in DOMAIN store' : x \in DOMAIN store /\ store'[x] = store[x]
                            /\ ~(k \in DOMAIN store' /\ Unmarshals(store'[k]))
      ]_vars

\* C16 witness: a Search has just returned the engine's error and the store
\* holds nothing under its key.
C16_Witness ==
    /\ last.op = "search" /\ last.err /\ last.engine
    /\ last.key \notin DOMAIN store

\* C17 (a failed cache write is tolerated): a Search whose engine call
\* returned results and whose cache write failed returns those results and
\* no error.
C17_StoreFailureTolerated ==
    [][\A q \in Queries, lim \in Limits, s \in AnySession, a \in Values :
          (last'.wfail /\ Search(q, lim, s, a)) => (~last'.err /\ last'.value = a)
      ]_vars

\* C17 witness: a Search has just returned the engine's results although its
\* cache write failed and left a broken file.
C17_Witness ==
    /\ last.op = "search" /\ last.wfail /\ ~last.err
    /\ last.value \in Values
    /\ last.key \in DOMAIN store /\ ~Unmarshals(store[last.key])

\* C18 (what the sweep deletes): CleanExpired removes an entry exactly when
\* its age exceeds its TTL, or it is pending and older than the grace period
\* of one hour, whatever its session; every other entry is left as it was.
C18_SweepExactly ==
    [][(last'.op = "sweep" /\ cacheEnabled /\ CleanExpired) =>
          \A k \in DOMAIN store : Unmarshals(store[k]) =>
              LET age == now - store[k].ts
                  due == age > store[k].ttl \/ (store[k].pending /\ age > PendingGraceHours)
              IN  /\ due => k \notin DOMAIN store'
                  /\ ~due => (k \in DOMAIN store' /\ store'[k] = store[k])
      ]_vars

\* C18 witness: a sweep has just removed a pending entry that was within its
\* TTL, and left another entry in place.
C18_Witness ==
    /\ last.op = "sweep"
    /\ now <= CacheTTL
    /\ \E k \in Keys : written[k].gone = "swept"
    /\ \E k \in Keys : k \in DOMAIN store /\ Unmarshals(store[k])

\* C21 (Set overwrites): in every store state, with caching enabled, a
\* Set(k, v, S) whose write succeeds leaves under k the entry with payload v,
\* session S, pending exactly when S is not empty, the present time and the
\* configured TTL, whatever was under k before, and leaves every other file
\* as it was.
C21_SetOverwrites ==
    cacheEnabled =>
        \A k \in Keys, v \in Values, s \in AnySession :
            LET after == SetResult(store, cacheEnabled, k, v, s, now, CacheTTL, "ok")
            IN  /\ k \in DOMAIN after
                /\ after[k] = [data |-> v, ts |-> now, ttl |-> CacheTTL,
                               sid |-> s, pending |-> (s # NoSession)]
                /\ DOMAIN after = DOMAIN store \cup {k}
                /\ \A x \in DOMAIN store \ {k} : after[x] = store[x]

\* C21 witness: a Set with no session has just replaced an entry that was
\* pending for a session, and the entry under the key is final.
C21_Witness ==
    /\ last.op = "set" /\ ~last.err /\ last.prev = "pending_other"
    /\ \E k \in Keys :
          /\ k \in DOMAIN store /\ Unmarshals(store[k])
          /\ store[k].ts = now /\ ~store[k].pending /\ store[k].sid = NoSession

\* C22 (pending entries have a session): in every reachable store state,
\* every entry that is pending carries a session ID that is not empty.
C22_PendingHasSession ==
    \A k \in DOMAIN store :
        (Unmarshals(store[k]) /\ store[k].pending) => store[k].sid # NoSession

\* C22 witness: the store holds an entry pending for a session next to a
\* final entry written with no session.
C22_Witness ==
    \E k1, k2 \in DOMAIN store :
        /\ Unmarshals(store[k1]) /\ store[k1].pending /\ store[k1].sid \in SessionIDs
        /\ Unmarshals(store[k2]) /\ ~store[k2].pending /\ store[k2].sid = NoSession
        /\ written[k2].fate = "live" /\ written[k2].sid = NoSession

C24_EmptySessionNoOp ==
    [][(last'.op \in {"commit", "discard"} /\ last'.prev = "empty_session") =>
          /\ ~last'.err
          /\ store' = store
          /\ store' = CommitResult(store, cacheEnabled, NoSession)
          /\ store' = DiscardResult(store, cacheEnabled, NoSession)
      ]_vars

\* C24 witness: with the cache enabled, a discard with the empty session has
\* just returned while the directory holds a final entry and a pending one.
C24_Witness ==
    /\ last.op = "discard" /\ last.prev = "empty_session" /\ ~last.err
    /\ cacheEnabled
    /\ \E k1, k2 \in DOMAIN store :
          /\ Unmarshals(store[k1]) /\ ~store[k1].pending /\ store[k1].sid = NoSession
          /\ Unmarshals(store[k2]) /\ store[k2].pending

\* C25 (corrupt file): a Get on a key whose file does not parse answers "not
\* found" and returns no error; and a Get (on any key), a commit, a discard or
\* a sweep leaves every file that does not parse in place, with its content.
C25_CorruptIsAbsentAndKept ==
    [][last'.op \in {"get", "commit", "discard", "sweep"} =>
          /\ \A k \in DOMAIN store :
                store[k] = CorruptFile => (k \in DOMAIN store' /\ store'[k] = CorruptFile)
          /\ (last'.op = "get" /\ last'.key \in DOMAIN store /\ store[last'.key] = CorruptFile)
                => (~last'.found /\ ~last'.err /\ last'.value = "none")
      ]_vars

\* C25 witness: with the cache enabled and the clock past the first hour, a
\* Get has just missed on a key whose file is corrupt, and the file is there.
C25_Witness ==
    /\ cacheEnabled /\ now >= 1
    /\ last.op = "get" /\ ~last.found
    /\ last.key \in DOMAIN store /\ store[last.key] = CorruptFile
    /\ written[last.key].gone = "corrupted"

\* C26 (Clear): when Clear returns the directory holds no file, whatever it
\* held and whether or not the cache is enabled; a Get that follows it, on
\* any key, answers "not found".
C26_ClearRemovesEverything ==
    [][/\ last'.op = "clear" =>
             (DOMAIN store' = {} /\ \A k \in Keys : ~GetFound(store', k, now'))
       /\ (last.op = "clear" /\ last'.op = "get") => ~last'.found
      ]_vars

\* C26 witness: Clear has just returned on a directory that held an entry
\* written by a Set and a file that a failed write had left corrupt.
C26_Witness ==
    /\ last.op = "clear" /\ store = EmptyStore
    /\ \E k1, k2 \in Keys :
          /\ written[k1].gone = "cleared"
          /\ written[k2].gone = "corrupted"

\* the directories one more successful Set, commit or discard, by any
\* session, can make of the directories sts, at hour t with the cache enabled
AfterOneCall(sts, t) ==
    UNION {   {SetResult(st, TRUE, k, v, s, t, CacheTTL, "ok") :
                   k \in Keys, v \in Values, s \in AnySession}
         \cup {CommitResult(st, TRUE, s) : s \in AnySession}
         \cup {DiscardResult(st, TRUE, s) : s \in AnySession} : st \in sts}

\* C32 (a committed key stays a hit): when the entry of key k is final and
\* within its TTL, then after any two further calls among Set, commit and
\* discard, by any sessions, a Get of k still finds an entry.
C32_CommittedSurvivesDiscard ==
    cacheEnabled =>
        \A k \in DOMAIN store :
            (Unmarshals(store[k]) /\ ~store[k].pending /\ ~Expired(store[k], now)) =>
                \A st \in AfterOneCall(AfterOneCall({store}, now), now) : GetFound(st, k, now)

\* C33 (a session tag only on pending entries): every entry in the directory
\* that carries a session is pending; so whatever session a discard is called
\* with, every entry it removes is a pending one.
C33_SessionTagOnlyOnPending ==
    /\ \A k \in DOMAIN store :
          (Unmarshals(store[k]) /\ store[k].sid # NoSession) => store[k].pending
    /\ \A s \in AnySession :
          \A k \in DOMAIN store \ DOMAIN DiscardResult(store, cacheEnabled, s) :
              store[k].pending /\ store[k].sid = s

\* C33 witness: a discard has just removed the pending entry of a session and
\* left in place an entry the same session had written and committed.
C33_Witness ==
    /\ last.op = "discard"
    /\ \E k1, k2 \in Keys :
          /\ written[k1].fate = "discarded" /\ k1 \notin DOMAIN store
          /\ written[k2].fate = "committed_discarded" /\ written[k2].sid = written[k1].sid
          /\ k2 \in DOMAIN store /\ ~store[k2].pending /\ store[k2].sid = NoSession

\* C34 (Get only removes what has expired under its key): a Get of key k
\* creates no file and changes none; the only file it can remove is that of
\* k, and only when it holds an entry past its TTL; a pending entry within its
\* TTL stays, however long it has been pending.
C34_GetOnlyExpires ==
    \A k \in Keys :
        LET after == IF cacheEnabled THEN GetStore(store, k, now) ELSE store
        IN  /\ DOMAIN after \subseteq DOMAIN store
            /\ \A x \in DOMAIN after : after[x] = store[x]
            /\ DOMAIN store \ DOMAIN after \subseteq {k}
            /\ k \in DOMAIN store \ DOMAIN after =>
                  (Unmarshals(store[k]) /\ now - store[k].ts > store[k].ttl)
            /\ (k \in DOMAIN store /\ Unmarshals(store[k]) /\ now - store[k].ts <= store[k].ttl)
                  => k \in DOMAIN after

\* C34 witness: a Get has just hit on an entry that is still pending after
\* more than the grace period, and the entry is still there, next to another.
C34_Witness ==
    /\ cacheEnabled
    /\ last.op = "get" /\ last.found /\ last.key \in DOMAIN store
    /\ store[last.key].pending
    /\ now - store[last.key].ts > PendingGraceHours
    /\ Cardinality(DOMAIN store) = 2

\* ------------------------------------------ the cache, switched off
\* The program runs with cache_enabled false over a directory that earlier
\* runs, with the cache enabled, have left: under each key no file, a file
\* that does not parse, or an entry written at hour 0.
LeftBehind == {CorruptFile} \cup {CacheEntry(v, 0, CacheTTL, s) : v \in Values, s \in AnySession}

DisabledInit ==
    /\ now = 0
    /\ cacheEnabled = FALSE
    /\ \E ks \in SUBSET Keys : store \in [ks -> LeftBehind]
    /\ written = [k \in Keys |-> NeverWritten]
    /\ last = NoCall
    /\ SessionIdle
    /\ SearchIdle
    /\ FileIdle

DisabledSpec == DisabledInit /\ [][Next]_vars

\* C35 (cache disabled): with caching disabled a Get finds nothing, whatever
\* file is there; a Set, a commit, a discard and a sweep return no error and
\* leave the directory as it is, and so does a cached search; Clear removes
\* every file.
C35_DisabledIsMissAndWriteFree ==
    [][~cacheEnabled =>
          /\ last'.op = "get" => (~last'.found /\ store' = store)
          /\ last'.op \in {"set", "commit", "discard", "sweep"} => (~last'.err /\ store' = store)
          /\ last'.op = "search" => (~last'.found /\ last'.engine /\ store' = store)
          /\ last'.op = "clear" => DOMAIN store' = {}
      ]_vars

\* C35 witness: with caching disabled a Get has just missed on a key whose
\* file holds an entry within its TTL.
C35_Witness ==
    /\ ~cacheEnabled
    /\ last.op = "get" /\ ~last.found
    /\ last.key \in DOMAIN store
    /\ Unmarshals(store[last.key]) /\ ~Expired(store[last.key], now)

\* ------------------------------------------------- the key of a search
\* Searches with queries made of the separator and of digits, and with
\* limits of one and of two digits: the first search of an empty directory
\* caches its results, a second search follows, and the directory is cleared.
MaxQueryLen == 2
QueryChars == {":", "1"}
QueryTexts == UNION {[1..n -> QueryChars] : n \in 0..MaxQueryLen}
KeyLimits == {1, 11}

KeySearch(query, limit, a) ==
    /\ \/ DOMAIN store = {}
       \/ last.op = "search" /\ ~last.found /\ DOMAIN store = {last.key}
    /\ Search(query, limit, NoSession, a)

KeyClear == DOMAIN store # {} /\ Clear

KeyInit ==
    /\ store = EmptyStore
    /\ now = 0
    /\ cacheEnabled = TRUE
    /\ written = [k \in Keys |-> NeverWritten]
    /\ last = NoCall
    /\ SessionIdle
    /\ SearchIdle
    /\ FileIdle

KeyNext ==
    \/ \E query \in QueryTexts, limit \in KeyLimits, a \in ProviderAnswers : KeySearch(query, limit, a)
    \/ KeyClear

KeySpec == KeyInit /\ [][KeyNext]_vars

\* C36 (the key of a search): a Search for (query, limit) is a hit exactly
\* when the directory holds the results cached for the same query and the
\* same limit; when it holds only results cached for another query, or for
\* the same query with another limit, the Search misses and calls the engine.
C36_KeyDependsOnQueryAndLimit ==
    [][\A query \in QueryTexts, limit \in KeyLimits :
          (last'.op = "search" /\ last'.key = SearchKey(query, limit)) =>
              /\ last'.found <=>
                    (SearchKey(query, limit) \in DOMAIN store
                        /\ Unmarshals(store[SearchKey(query, limit)]))
              /\ \A q0 \in QueryTexts, l0 \in KeyLimits :
                    (DOMAIN store = {SearchKey(q0, l0)} /\ <<q0, l0>> # <<query, limit>>)
                        => (~last'.found /\ last'.engine)
      ]_vars

\* C36 witness: a Search has just missed and called the engine while the
\* directory held the results of a search whose query and limit, written one
\* after the other, read the same as its own.
C36_Witness ==
    /\ last.op = "search" /\ ~last.found /\ last.engine
    /\ last.key = SearchKey(<<"1">>, 11)
    /\ SearchKey(<<"1", "1">>, 1) \in DOMAIN store
    /\ Unmarshals(store[SearchKey(<<"1", "1">>, 1)])

\* ------------------------------------------------------- the Q&A step
\* generateEnhancedResponse(question, session, ..., enableSearch): a cache
\* lookup under the key of the question; on a miss the model is asked, and
\* when a search is needed and enabled, search queries are generated, the
\* batch of searches runs and the model is asked again with the results.

\* the session of the turn, and the key of its question
QASession == "S1"
QAKey == CHOOSE k \in Keys : k \in {GetCacheKey(d) : d \in QADescriptors}
QASearchKey == CHOOSE k \in Keys : k # QAKey

\* What the model may answer (client.Chat): an error, an answer from the
\* document, an answer that is short or says the document does not tell, a
\* request for a search, and a request for a search after a blank.
ModelError == "err"
SearchRequest == "SEARCH_NEEDED: x"
ModelAnswers == {"answer", "short", SearchRequest, " SEARCH_NEEDED: x"}

\* the fixed answer given when the search brought nothing
fallbackResponse == "fallback"

\* strings.TrimSpace and strings.HasPrefix(r, "SEARCH_NEEDED:") on the
\* answers of the model
TrimSpace(r) == IF r = " SEARCH_NEEDED: x" THEN SearchRequest ELSE r
HasSearchPrefix(r) == r = SearchRequest

\* len(initialResponse) < 35 || containsSearchTriggers(initialResponse)
Unhelpful(r) == r = "short"

\* needsSearch
NeedsSearch(initial, enableSearch) ==
    HasSearchPrefix(initial) \/ (enableSearch /\ Unhelpful(initial))

\* how generateSearchQueries may end: an error, no query, some queries
QueryGenerations == {"err", "none", "some"}

\* err == nil && len(searchQueries) > 0, the query the model asked for being
\* put in front of the generated ones
HasQueries(initial, gen) ==
    gen # "err" /\ (gen = "some" \/ HasSearchPrefix(initial))

\* a step that gives the fallback answer without storing it
QAResult_FallbackNotCached(enableSearch, first, gen, results, second) ==
    LET initial == TrimSpace(first)
    IN  IF first = ModelError
        THEN [ret |-> "none", err |-> TRUE, cache |-> "none", searched |-> FALSE]
        ELSE IF enableSearch /\ NeedsSearch(initial, enableSearch)
        THEN IF HasQueries(initial, gen) /\ results /\ second # ModelError
             THEN [ret |-> second, err |-> FALSE, cache |-> second, searched |-> TRUE]
             ELSE [ret |-> fallbackResponse, err |-> FALSE, cache |-> "none",
                   searched |-> HasQueries(initial, gen)]
        ELSE [ret |-> initial, err |-> FALSE,
              cache |-> IF HasSearchPrefix(initial) THEN "none" ELSE initial,
              searched |-> FALSE]

\* generateEnhancedResponse after the cache miss, for the first answer of the
\* model, the outcome gen of the query generation, whether the batch brought
\* results, and the second answer of the model: what is returned (ret, err),
\* what is handed to cacheManager.Set (cache; "none": nothing), and whether
\* the batch of searches ran (searched).
QAResult(enableSearch, first, gen, results, second) ==
    LET initial == TrimSpace(first)
    IN  IF first = ModelError
        THEN [ret |-> "none", err |-> TRUE, cache |-> "none", searched |-> FALSE]
        ELSE IF enableSearch /\ NeedsSearch(initial, enableSearch)
        THEN IF HasQueries(initial, gen) /\ results /\ second # ModelError
             THEN [ret |-> second, err |-> FALSE, cache |-> second, searched |-> TRUE]
             ELSE [ret |-> fallbackResponse, err |-> FALSE, cache |-> fallbackResponse,
                   searched |-> HasQueries(initial, gen)]
        ELSE [ret |-> initial, err |-> FALSE,
              cache |-> IF HasSearchPrefix(initial) THEN "none" ELSE initial,
              searched |-> FALSE]

\* the directory after the batch of searches of the turn: a search that
\* brought results from the engine has stored them for the session
AfterBatch(st, enabled, results, t) ==
    IF ~enabled THEN st
    ELSE IF GetFound(st, QASearchKey, t) THEN st
    ELSE IF results
         THEN WriteFile(GetStore(st, QASearchKey, t), QASearchKey,
                        CacheEntry("v1", t, CacheTTL, QASession))
         ELSE GetStore(st, QASearchKey, t)

\* one turn: generateEnhancedResponse as a whole
QATurn(enableSearch, first, gen, results, second, w) ==
    LET hit == cacheEnabled /\ GetFound(store, QAKey, now)
        afterGet == IF cacheEnabled THEN GetStore(store, QAKey, now) ELSE store
        r == QAResult(enableSearch, first, gen, results, second)
        afterBatch == IF r.searched THEN AfterBatch(afterGet, cacheEnabled, results, now)
                      ELSE afterGet
    IN  /\ (cacheEnabled /\ GetFound(store, QASearchKey, now)) => results
        /\ IF hit
           THEN /\ store' = store
                /\ last' = Answer("qa", QAKey, TRUE, store[QAKey].data, FALSE)
           ELSE /\ store' = IF r.cache = "none" THEN afterBatch
                            ELSE SetResult(afterBatch, cacheEnabled, QAKey, r.cache,
                                           QASession, now, CacheTTL, w)
                /\ last' = [Answer("qa", QAKey, FALSE, r.ret, r.err)
                               EXCEPT !.engine = TRUE,
                                      !.wfail = r.cache # "none" /\ cacheEnabled /\ w # "ok"]
        /\ UNCHANGED <<now, cacheEnabled, written, sessionVars, fileVars, searchVars>>

QAInit ==
    /\ store = EmptyStore
    /\ now = 0
    /\ cacheEnabled \in BOOLEAN
    /\ written = [k \in Keys |-> NeverWritten]
    /\ last = NoCall
    /\ SessionIdle
    /\ SearchIdle
    /\ FileIdle

QANext ==
    \/ \E enableSearch \in BOOLEAN, first \in ModelAnswers \cup {ModelError},
          gen \in QueryGenerations, results \in BOOLEAN,
          second \in ModelAnswers \cup {ModelError}, w \in WriteOutcomes :
              QATurn(enableSearch, first, gen, results, second, w)
    \/ Tick
    \/ CleanExpired

QASpec == QAInit /\ [][QANext]_vars

\* C37 (a search request is never cached): no entry of the directory holds a
\* response that begins with "SEARCH_NEEDED:".
C37_SearchRequestNeverCached ==
    \A k \in DOMAIN store : Unmarshals(store[k]) => ~HasSearchPrefix(store[k].data)

\* C38 as stated: a turn that returns the fallback answer (the cache being
\* enabled and its write succeeding) leaves it stored under the key of the
\* question, and a repeat of the question at any later hour within the TTL
\* finds it there, whatever sweep has run meanwhile.
C38_AsStated ==
    [][(last'.op = "qa" /\ ~last'.found /\ last'.value = fallbackResponse
            /\ cacheEnabled /\ ~last'.wfail) =>
          \A t \in now'..MaxHours :
              t - now' <= CacheTTL => GetFound(SweepStore(store', t), QAKey, t)
      ]_vars

\* C38 (the fallback answer, amended): a turn that needs a search, with
\* search enabled, and whose search brings nothing (the query generation
\* fails or gives no query, the batch brings no result, or the second call
\* of the model fails) returns the fallback answer and hands it to the
\* cache; with the cache enabled and the write succeeding the answer is then
\* stored under the key of the question, pending for the session; while that
\* entry is stored and within its TTL a repeat of the question returns it
\* from the cache, calling neither the model nor the searches and changing
\* nothing; and a sweep leaves the entry in place during the grace period
\* (it removes it afterwards, although the TTL has not run out).
C38_FallbackCachedAndReused ==
    /\ \A first \in ModelAnswers, gen \in QueryGenerations, results \in BOOLEAN,
          second \in ModelAnswers \cup {ModelError} :
              (/\ NeedsSearch(TrimSpace(first), TRUE)
               /\ (~HasQueries(TrimSpace(first), gen) \/ ~results \/ second = ModelError))
                  => LET r == QAResult(TRUE, first, gen, results, second)
                     IN  r.ret = fallbackResponse /\ r.cache = fallbackResponse /\ ~r.err
    /\ [][last'.op = "qa" =>
             /\ (~last'.found /\ last'.value = fallbackResponse /\ cacheEnabled /\ ~last'.wfail) =>
                   /\ QAKey \in DOMAIN store'
                   /\ store'[QAKey] = CacheEntry(fallbackResponse, now', CacheTTL, QASession)
                   /\ \A t \in now'..MaxHours :
                         t - now' <= PendingGraceHours
                             => GetFound(SweepStore(store', t), QAKey, t)
             /\ (cacheEnabled /\ GetFound(store, QAKey, now)
                     /\ store[QAKey].data = fallbackResponse) =>
                   /\ last'.found /\ last'.value = fallbackResponse
                   /\ ~last'.engine /\ ~last'.err
                   /\ store' = store
         ]_vars

\* C38 witness: at a later hour, a turn has just returned from the cache the
\* fallback answer that an earlier turn of the session had stored.
C38_Witness ==
    /\ last.op = "qa" /\ last.found /\ ~last.engine
    /\ last.value = fallbackResponse
    /\ QAKey \in DOMAIN store
    /\ store[QAKey].data = fallbackResponse
    /\ store[QAKey].pending /\ store[QAKey].sid = QASession
    /\ now > store[QAKey].ts

\* ==================================================== the interactive session
\* StartInteractiveSession: the main loop reads questions and answers them
\* (generateEnhancedResponse caches under session.ID); an exit command or a
\* failed read calls handleSessionExit and leaves the loop. A goroutine waits
\* for SIGINT/SIGTERM and then calls handleSessionExit, rl.Close() and
\* os.Exit(0). Another goroutine runs CleanExpired at startup.

\* The ID the session was created or loaded with.
StartID == "S1"

\* What the name prompt may yield after cleanSessionName / generateSessionName:
\* the session's own ID again, another name, or the empty string.
SessionNames == AnySession

Alive == pc["main"] # "exited"

\* return from handleSessionExit in goroutine p
ReturnFrom(p, how) ==
    /\ pc' = [pc EXCEPT ![p] = IF p = "main" THEN "returned" ELSE "closing"]
    /\ exitReturn' = how

\* cm.ClearSessionCache(session.ID) inside handleSessionExit
ExitDiscard ==
    /\ store' = DiscardResult(store, cacheEnabled, sessionID)
    /\ calls' = Append(calls, <<"discard", sessionID>>)

\* cm.CommitSessionCache(session.ID) inside handleSessionExit
ExitCommit ==
    /\ store' = CommitResult(store, cacheEnabled, sessionID)
    /\ calls' = Append(calls, <<"commit", sessionID>>)

\* go cacheManager.CleanExpired()
StartupSweep ==
    /\ pc["clean"] = "start"
    /\ store' = IF cacheEnabled THEN SweepStore(store, now) ELSE store
    /\ pc' = [pc EXCEPT !["clean"] = "done"]
    /\ exitReturn' = "none"
    /\ UNCHANGED <<now, cacheEnabled, written, last, sessionID, persist, messages, added, rlClosed, sessKeys, calls, searchVars, fileVars>>

\* main loop: rl.Readline() returned a question
AskQuestion ==
    /\ pc["main"] = "loop" /\ ~rlClosed
    /\ pc' = [pc EXCEPT !["main"] = "generating"]
    /\ exitReturn' = "none"
    /\ UNCHANGED <<cacheVars, sessionID, persist, messages, added, rlClosed, sessKeys, calls, searchVars, fileVars>>

\* generateEnhancedResponse for the question with cache key k: a hit returns
\* the cached answer; otherwise the answer v is generated and, when cache is
\* TRUE, stored with Set(cacheKey, v, session.ID) (an error, or an uncached
\* "SEARCH_NEEDED:" answer, stores nothing).
Respond(k, v, cache) ==
    /\ Alive
    /\ pc["main"] = "generating"
    /\ IF (cacheEnabled /\ GetFound(store, k, now)) \/ ~cache \/ ~cacheEnabled
       THEN UNCHANGED <<store, sessKeys>>
       ELSE /\ store' = WriteFile(store, k, CacheEntry(v, now, CacheTTL, sessionID))
            /\ sessKeys' = sessKeys \cup {k}
    /\ pc' = [pc EXCEPT !["main"] = "loop"]
    /\ exitReturn' = "none"
    /\ UNCHANGED <<now, cacheEnabled, written, last, sessionID, persist, messages, added, rlClosed, calls, searchVars, fileVars>>

\* main loop: rl.Readline() failed (end of input, interrupt, closed), or the
\* question was /exit, /bye or /quit: handleSessionExit is called
ExitCommand ==
    /\ pc["main"] = "loop"
    /\ pc' = [pc EXCEPT !["main"] = "he_check"]
    /\ exitReturn' = "none"
    /\ UNCHANGED <<cacheVars, sessionID, persist, messages, added, rlClosed, sessKeys, calls, searchVars, fileVars>>

\* the signal goroutine: <-c returned, handleSessionExit is called
Signal ==
    /\ Alive
    /\ pc["sig"] = "wait"
    /\ pc' = [pc EXCEPT !["sig"] = "he_check"]
    /\ exitReturn' = "none"
    /\ UNCHANGED <<cacheVars, sessionID, persist, messages, added, rlClosed, sessKeys, calls, searchVars, fileVars>>

\* handleSessionExit: if !sm.config.SessionPersist
HE_Check(p) ==
    /\ Alive
    /\ pc[p] = "he_check"
    /\ IF ~persist
       THEN ExitDiscard /\ ReturnFrom(p, "not_persisted")
       ELSE /\ pc' = [pc EXCEPT ![p] = "he_prompt"]
            /\ exitReturn' = "none"
            /\ UNCHANGED <<store, calls>>
    /\ UNCHANGED <<now, cacheEnabled, written, last, sessionID, persist, messages, added, rlClosed, sessKeys, searchVars, fileVars>>

\* handleSessionExit: the "Save session?" prompt. An answer that is none of
\* the choices prompts again and is left out.
HE_Prompt(p, answer) ==
    /\ Alive
    /\ pc[p] = "he_prompt"
    /\ rlClosed => answer = "err"
    /\ CASE answer = "err"     -> ExitDiscard /\ ReturnFrom(p, "input_failed")
         [] answer = "discard" -> ExitDiscard /\ ReturnFrom(p, "discarded")
         [] answer = "delete"  -> ExitDiscard /\ ReturnFrom(p, "deleted")
         [] answer = "save"    -> /\ pc' = [pc EXCEPT ![p] = "he_name"]
                                  /\ exitReturn' = "none"
                                  /\ UNCHANGED <<store, calls>>
    /\ UNCHANGED <<now, cacheEnabled, written, last, sessionID, persist, messages, added, rlClosed, sessKeys, searchVars, fileVars>>

\* handleSessionExit: the session-name prompt failed
HE_NameFailed(p) ==
    /\ Alive
    /\ pc[p] = "he_name"
    /\ ExitDiscard
    /\ ReturnFrom(p, "name_failed")
    /\ UNCHANGED <<now, cacheEnabled, written, last, sessionID, persist, messages, added, rlClosed, sessKeys, searchVars, fileVars>>

\* handleSessionExit: the session-name prompt answered; session.ID = sessionName
HE_Name(p, name) ==
    /\ Alive
    /\ pc[p] = "he_name"
    /\ ~rlClosed
    /\ sessionID' = name
    /\ pc' = [pc EXCEPT ![p] = "he_save"]
    /\ exitReturn' = "none"
    /\ UNCHANGED <<cacheVars, persist, messages, added, rlClosed, sessKeys, calls, searchVars, fileVars>>

\* handleSessionExit: sm.SaveSession(session), then the discard or the commit
HE_Save(p, ok) ==
    /\ Alive
    /\ pc[p] = "he_save"
    /\ IF ok
       THEN ExitCommit /\ ReturnFrom(p, "saved")
       ELSE ExitDiscard /\ ReturnFrom(p, "save_failed")
    /\ UNCHANGED <<now, cacheEnabled, written, last, sessionID, persist, messages, added, rlClosed, sessKeys, searchVars, fileVars>>

\* StartInteractiveSession returns: the deferred rl.Close()
MainReturn ==
    /\ pc["main"] = "returned"
    /\ rlClosed' = TRUE
    /\ pc' = [pc EXCEPT !["main"] = "done"]
    /\ exitReturn' = "none"
    /\ UNCHANGED <<cacheVars, sessionID, persist, messages, added, sessKeys, calls, searchVars, fileVars>>

\* the process ends: the caller of StartInteractiveSession returns, or the
\* signal goroutine reaches rl.Close(); os.Exit(0)
ProcessEnd ==
    /\ pc["main"] = "done" \/ pc["sig"] = "closing"
    /\ Alive
    /\ rlClosed' = TRUE
    /\ pc' = [p \in Procs |-> "exited"]
    /\ exitReturn' = "none"
    /\ UNCHANGED <<cacheVars, sessionID, persist, messages, added, sessKeys, calls, searchVars, fileVars>>

ExitAnswers == {"err", "save", "discard", "delete"}

SessionInit ==
    /\ store = EmptyStore
    /\ now = 0
    /\ cacheEnabled = TRUE
    /\ written = [k \in Keys |-> NeverWritten]
    /\ last = NoCall
    /\ sessionID = StartID
    /\ persist \in BOOLEAN
    /\ pc = [p \in Procs |-> CASE p = "main" -> "loop" [] p = "sig" -> "wait" [] p = "clean" -> "start"]
    /\ rlClosed = FALSE
    /\ sessKeys = {}
    /\ calls = << >>
    /\ exitReturn = "none"
    /\ messages = IF persist THEN CreateSessionMessages(1) ELSE NoMessages
    /\ added = 0
    /\ SearchIdle
    /\ FileIdle

SessionNext ==
    \/ StartupSweep
    \/ AskQuestion
    \/ \E k \in Keys, v \in Values, cache \in BOOLEAN : Respond(k, v, cache)
    \/ ExitCommand
    \/ Signal
    \/ \E p \in {"main", "sig"} : HE_Check(p)
    \/ \E p \in {"main", "sig"}, answer \in ExitAnswers : HE_Prompt(p, answer)
    \/ \E p \in {"main", "sig"} : HE_NameFailed(p)
    \/ \E p \in {"main", "sig"}, name \in SessionNames : HE_Name(p, name)
    \/ \E p \in {"main", "sig"}, ok \in BOOLEAN : HE_Save(p, ok)
    \/ MainReturn
    \/ ProcessEnd

SessionSpec == SessionInit /\ [][SessionNext]_vars

\* ===================================================== claims on the session

\* C7 (save commits): when handleSessionExit returns after a successful
\* save, every entry the session wrote is in the cache, not pending, with an
\* empty sessionID.
C7_SaveCommitsSessionEntries ==
    exitReturn = "saved" =>
        \A k \in sessKeys :
            k \in DOMAIN store /\ ~store[k].pending /\ store[k].sid = NoSession

\* C8 (no save, no entries): when handleSessionExit returns without a
\* successful save (persistence off, input failed at either prompt, save
\* failed, discard, delete), no entry the session wrote is left in the cache.
C8_NoSaveLeavesNoEntries ==
    exitReturn \in {"not_persisted", "input_failed", "name_failed", "save_failed", "discarded", "deleted"} =>
        \A k \in sessKeys : k \notin DOMAIN store

\* C9 (exactly once): a session calls commit or discard on the cache at most
\* once, and has called one of them exactly once when the process ends.
C9_CommitOrDiscardExactlyOnce ==
    /\ Len(calls) <= 1
    /\ ~Alive => Len(calls) = 1

\* ================================================ the parallel search batch
\* PerformParallelSearches(queries, limitPerQuery, sessionID): the loop starts
\* one goroutine per query; each takes a token of the semaphore channel, runs
\* Search, appends its results to allResults under the mutex, and gives the
\* token back. After wg.Wait() the results are deduplicated and truncated.

\* make(chan struct{}, 4)
SemaphoreCap == 4

\* config.MaxSearchResults of the configuration the model runs under.
MaxSearchResults == 4

\* limitPerQuery and sessionID of the call (interactive.go:443)
BatchLimit == 3
BatchSession == "S1"

\* queries[i]: the last query of the batch repeats the first one.
BatchQuery(i) == IF i = BatchSize THEN 1 ELSE i

\* What the engine returns for query q when it succeeds: two results, the
\* second at the URL that is also the first result of the next query.
EngineResults(q) == << [url |-> q, from |-> q], [url |-> q + 1, from |-> q] >>

BatchKey(i) == GetCacheKey(SearchDescriptor(Decimal(BatchQuery(i)), BatchLimit))

\* The queries slice of the call: its first len(queries) positions. A
\* position past the end of the slice has no goroutine ("absent").
Batch == {i \in Workers : gpc[i] # "absent"}

\* len(queries)
NumQueries == Cardinality(Batch)

\* a goroutine that never blocks on the channel
CanAcquire_Unbounded(sem) == TRUE

\* semaphore <- struct{}{} can proceed: the channel buffer is not full
CanAcquire(sem) == sem < SemaphoreCap

\* goroutines that hold a token: between the send and the deferred receive
Holding == {i \in Workers : gpc[i] \in {"acquired", "calling", "got", "locked", "appending", "release"}}

\* goroutines whose engine.Search call is in flight
Calling == {i \in Workers : gpc[i] = "calling"}

\* a goroutine that calls Search again when it returned an error
AfterSearch_Retries(err) == IF err THEN "acquired" ELSE "got"

\* a goroutine that leaves on an error without its deferred calls
AfterSearch_LeaksToken(err) == IF err THEN "done" ELSE "got"

\* if err != nil { return }: on an error the goroutine goes straight to its
\* deferred calls, otherwise on to the append
AfterSearch(err) == IF err THEN "release" ELSE "got"

\* a mutex that never blocks
CanLock_Always(m) == TRUE

\* mu.Lock() can proceed: nobody holds the mutex
CanLock(m) == m = 0

\* the loop: wg.Add(1); go func(q) {...}(query)
Dispatch ==
    /\ batchResult = <<"running">>
    /\ dispatched < NumQueries
    /\ dispatched' = dispatched + 1
    /\ gpc' = [gpc EXCEPT ![dispatched + 1] = "start"]
    /\ UNCHANGED <<cacheVars, sessionVars, fileVars, semaphore, mu, allResults, batchResult, searchReturn, snapshot>>

\* semaphore <- struct{}{}
Acquire(i) ==
    /\ gpc[i] = "start"
    /\ CanAcquire(semaphore)
    /\ semaphore' = semaphore + 1
    /\ gpc' = [gpc EXCEPT ![i] = "acquired"]
    /\ UNCHANGED <<cacheVars, sessionVars, fileVars, mu, allResults, dispatched, batchResult, searchReturn, snapshot>>

\* sm.Search: the cache lookup; a hit returns the cached results
SearchLookup(i) ==
    LET hit == cacheEnabled /\ GetFound(store, BatchKey(i), now)
    IN  /\ gpc[i] = "acquired"
        /\ store' = IF cacheEnabled THEN GetStore(store, BatchKey(i), now) ELSE store
        /\ gpc' = [gpc EXCEPT ![i] = IF hit THEN AfterSearch(FALSE) ELSE "calling"]
        /\ searchReturn' = IF hit
                           THEN [searchReturn EXCEPT ![i] = Returned(store[BatchKey(i)].data)]
                           ELSE searchReturn
        /\ UNCHANGED <<now, cacheEnabled, written, last, sessionVars, fileVars, semaphore, mu, allResults, dispatched, batchResult, snapshot>>

\* sm.Search: engine.Search returned. Results are cached and returned; an
\* error is returned, and the goroutine returns (the deferred receive and
\* wg.Done() remain). The engine returns an error when it finds nothing.
EngineReturn(i, ok) ==
    /\ gpc[i] = "calling"
    /\ store' = IF ok /\ cacheEnabled
                THEN WriteFile(store, BatchKey(i),
                         CacheEntry(EngineResults(BatchQuery(i)), now, CacheTTL, BatchSession))
                ELSE store
    /\ searchReturn' = [searchReturn EXCEPT ![i] =
                           IF ok THEN Returned(EngineResults(BatchQuery(i))) ELSE Failed]
    /\ gpc' = [gpc EXCEPT ![i] = AfterSearch(~ok)]
    /\ UNCHANGED <<now, cacheEnabled, written, last, sessionVars, fileVars, semaphore, mu, allResults, dispatched, batchResult, snapshot>>

\* mu.Lock()
Lock(i) ==
    /\ gpc[i] = "got"
    /\ CanLock(mu)
    /\ mu' = i
    /\ gpc' = [gpc EXCEPT ![i] = "locked"]
    /\ UNCHANGED <<cacheVars, sessionVars, fileVars, semaphore, allResults, dispatched, batchResult, searchReturn, snapshot>>

\* append(allResults, results...): the read of the shared slice
ReadAggregate(i) ==
    /\ gpc[i] = "locked"
    /\ snapshot' = [snapshot EXCEPT ![i] = allResults]
    /\ gpc' = [gpc EXCEPT ![i] = "appending"]
    /\ UNCHANGED <<cacheVars, sessionVars, fileVars, semaphore, mu, allResults, dispatched, batchResult, searchReturn>>

\* allResults = (the slice read, with results appended); mu.Unlock()
AppendUnlock(i) ==
    /\ gpc[i] = "appending"
    /\ allResults' = snapshot[i] \o searchReturn[i].results
    /\ snapshot' = [snapshot EXCEPT ![i] = << >>]
    /\ mu' = 0
    /\ gpc' = [gpc EXCEPT ![i] = "release"]
    /\ UNCHANGED <<cacheVars, sessionVars, fileVars, semaphore, dispatched, batchResult, searchReturn>>

\* the deferred <-semaphore and wg.Done()
Release(i) ==
    /\ gpc[i] = "release"
    /\ semaphore' = semaphore - 1
    /\ gpc' = [gpc EXCEPT ![i] = "done"]
    /\ UNCHANGED <<cacheVars, sessionVars, fileVars, mu, allResults, dispatched, batchResult, searchReturn, snapshot>>

\* deduplicateResults: the first result of each URL, in order
RECURSIVE Dedup(_, _)
Dedup(results, seen) ==
    IF results = << >> THEN << >>
    ELSE IF Head(results).url \in seen
         THEN Dedup(Tail(results), seen)
         ELSE <<Head(results)>> \o Dedup(Tail(results), seen \cup {Head(results).url})

deduplicateResults(results) == Dedup(results, {})

\* a return of the whole deduplicated slice
Truncate_Nothing(results) == results

\* uniqueResults[:sm.config.MaxSearchResults] when longer
Truncate(results) ==
    IF Len(results) > MaxSearchResults THEN SubSeq(results, 1, MaxSearchResults) ELSE results

\* a return that does not wait for the goroutines
Join_WithoutWait ==
    /\ batchResult = <<"running">>
    /\ dispatched = NumQueries
    /\ batchResult' = <<"returned", Truncate(deduplicateResults(allResults))>>
    /\ UNCHANGED <<cacheVars, sessionVars, fileVars, gpc, semaphore, mu, allResults, dispatched, searchReturn, snapshot>>

\* wg.Wait() returns; deduplicate, truncate, return
Join ==
    /\ batchResult = <<"running">>
    /\ dispatched = NumQueries
    /\ \A i \in Batch : gpc[i] = "done"
    /\ batchResult' = <<"returned", Truncate(deduplicateResults(allResults))>>
    /\ UNCHANGED <<cacheVars, sessionVars, fileVars, gpc, semaphore, mu, allResults, dispatched, searchReturn, snapshot>>

SearchInit ==
    /\ store = EmptyStore
    /\ now = 0
    /\ cacheEnabled = TRUE
    /\ written = [k \in Keys |-> NeverWritten]
    /\ last = NoCall
    /\ SessionIdle
    /\ FileIdle
    /\ gpc \in {[i \in Workers |-> IF i <= n THEN "idle" ELSE "absent"] : n \in 0..BatchSize}
    /\ semaphore = 0
    /\ mu = 0
    /\ allResults = << >>
    /\ dispatched = 0
    /\ batchResult = <<"running">>
    /\ searchReturn = [i \in Workers |-> NotReturned]
    /\ snapshot = [i \in Workers |-> << >>]

SearchNext ==
    \/ Dispatch
    \/ \E i \in Workers : Acquire(i)
    \/ \E i \in Workers : SearchLookup(i)
    \/ \E i \in Workers, ok \in BOOLEAN : EngineReturn(i, ok)
    \/ \E i \in Workers : Lock(i)
    \/ \E i \in Workers : ReadAggregate(i)
    \/ \E i \in Workers : AppendUnlock(i)
    \/ \E i \in Workers : Release(i)
    \/ Join

SearchSpec == SearchInit /\ [][SearchNext]_vars

\* The batch under a scheduler that runs a goroutine that can run, and with
\* engines whose calls return: a step of the batch that stays possible is
\* taken.
FairSearchSpec == SearchSpec /\ WF_vars(SearchNext)

\* ======================================================= claims on the batch

\* C10 (bounded concurrency): at every moment of a batch, the goroutines
\* inside Search (holding a semaphore token), and so the engine calls in
\* flight, number at most the semaphore's capacity, although the batch is
\* larger than the capacity.
C10_BoundedConcurrency ==
    /\ Cardinality(Holding) <= SemaphoreCap
    /\ Cardinality(Calling) <= SemaphoreCap
    /\ semaphore = Cardinality(Holding)

\* C10 witness: as many engine calls in flight as the semaphore allows, with
\* a further goroutine of the batch blocked on the channel.
C10_Witness ==
    /\ Cardinality(Calling) = SemaphoreCap
    /\ \E i \in Workers : gpc[i] = "start"

\* the results in a slice, and their URLs
Range(results) == {results[n] : n \in DOMAIN results}
UrlsOf(results) == {results[n].url : n \in DOMAIN results}

\* the goroutines whose sm.Search returned results / an error
Succeeded == {i \in Workers : searchReturn[i].state = "ok"}
FailedQueries == {i \in Workers : searchReturn[i].state = "err"}

\* the results of the successful queries, one query after the other in the
\* order of the queries slice, from query i on
RECURSIVE InDispatchOrder(_)
InDispatchOrder(i) ==
    IF i > BatchSize THEN << >> ELSE searchReturn[i].results \o InDispatchOrder(i + 1)

\* C11 (a failing query never fails the batch): while the batch runs some
\* step of it can always be taken, whatever queries have failed, so that it
\* comes to return; and the slice it returns holds only results that a
\* successful query returned, and holds some when a query succeeded.
C11_PartialFailureTolerated ==
    /\ batchResult = <<"running">> => ENABLED SearchNext
    /\ batchResult[1] = "returned" =>
          /\ \A r \in Range(batchResult[2]) :
                \E i \in Succeeded : r \in Range(searchReturn[i].results)
          /\ Succeeded # {} => batchResult[2] # << >>
          /\ Succeeded \cup FailedQueries = Batch

\* C11 witness: a batch has returned in which two queries failed and the
\* others succeeded.
C11_Witness ==
    /\ batchResult[1] = "returned"
    /\ Cardinality(FailedQueries) = 2
    /\ Cardinality(Succeeded) = BatchSize - 2
    /\ batchResult[2] # << >>

C13_DispatchOrder ==
    batchResult[1] = "returned" =>
        batchResult[2] = Truncate(deduplicateResults(InDispatchOrder(1)))

\* C14 (deterministic content): when every query of the batch succeeds, the
\* set of results returned is the same in every interleaving: it is the set
\* returned when the goroutines append in the order they were started.
C14_DeterministicContent ==
    (batchResult[1] = "returned" /\ Succeeded = Batch) =>
        Range(batchResult[2]) = Range(Truncate(deduplicateResults(InDispatchOrder(1))))

\* C27 (join and termination): the batch returns only when every query of
\* the slice has been dispatched and the Search of each has returned results
\* or an error and its goroutine has finished; while the batch runs some step
\* of it can be taken; and, with goroutines that are scheduled and engine
\* calls that return, the batch does return. This for every length of the
\* queries slice from the empty one to one above the semaphore's capacity.
C27_JoinsAndReturns ==
    /\ [](batchResult[1] = "returned" =>
             /\ dispatched = NumQueries
             /\ \A i \in Batch : gpc[i] = "done" /\ searchReturn[i].state \in {"ok", "err"}
             /\ semaphore = 0 /\ mu = 0)
    /\ [](batchResult = <<"running">> => ENABLED SearchNext)
    /\ <>(batchResult[1] = "returned")

\* C27 witness: a batch of more queries than the semaphore has tokens has
\* returned after some of its queries failed.
C27_Witness ==
    /\ batchResult[1] = "returned"
    /\ NumQueries > SemaphoreCap
    /\ FailedQueries # {}
    /\ \A i \in Batch : gpc[i] = "done"

\* the place of a goroutine in its code: each step moves it forward
Position(at) ==
    CASE at = "absent"    -> 0
      [] at = "idle"      -> 0
      [] at = "start"     -> 1
      [] at = "acquired"  -> 2
      [] at = "calling"   -> 3
      [] at = "got"       -> 4
      [] at = "locked"    -> 5
      [] at = "appending" -> 6
      [] at = "release"   -> 7
      [] at = "done"      -> 8

\* C28 (no retry): a goroutine of the batch only moves forward in its code,
\* so it enters Search, and the engine call inside it, at most once; and once
\* its Search has returned an error, what it returned stays and the shared
\* slice never receives a result from it.
C28_NoRetry ==
    [][\A i \in Workers :
          /\ gpc'[i] # gpc[i] => Position(gpc'[i]) > Position(gpc[i])
          /\ searchReturn[i] # NotReturned => searchReturn'[i] = searchReturn[i]
          /\ (searchReturn[i].state = "err" /\ allResults' # allResults) => mu # i
      ]_vars

\* C28 witness: the batch has returned; its first query failed, and the last
\* query, which asks the same thing, succeeded in its own goroutine.
C28_Witness ==
    /\ batchResult[1] = "returned"
    /\ NumQueries = BatchSize
    /\ searchReturn[1].state = "err"
    /\ searchReturn[BatchSize].state = "ok"

\* the smaller of two numbers
Min(a, b) == IF a < b THEN a ELSE b

\* C29 (truncation): the slice the batch returns has at most MaxSearchResults
\* elements, and is the first min(MaxSearchResults, n) elements of the
\* n-element deduplicated aggregate.
C29_TruncatedToMaximum ==
    batchResult[1] = "returned" =>
        LET agg == deduplicateResults(allResults)
        IN  /\ Len(batchResult[2]) <= MaxSearchResults
            /\ Len(batchResult[2]) = Min(MaxSearchResults, Len(agg))
            /\ \A n \in 1..Len(batchResult[2]) : batchResult[2][n] = agg[n]

\* C29 witness: a batch has returned whose deduplicated aggregate was longer
\* than the maximum.
C29_Witness ==
    /\ batchResult[1] = "returned"
    /\ Len(deduplicateResults(allResults)) > MaxSearchResults
    /\ Len(batchResult[2]) = MaxSearchResults

\* the queries ProcessSearchQuery hands to the batch: the original query and
\* at most two related ones
PipelineQueries == 3

\* a pipeline that reports an error as soon as the results do not fill the
\* maximum
ProcessSearchQuery_WantsFullResults(results, summaryOk) ==
    IF Len(results) < MaxSearchResults THEN "no_search_results"
    ELSE IF ~summaryOk THEN "summary_failed" ELSE "ok"

\* ProcessSearchQuery, after PerformParallelSearches returned results: the
\* "no search results found" error when the slice is empty; otherwise the
\* error of the summary generation when it fails (summaryOk is whether it
\* succeeded), and no error when it succeeds.
ProcessSearchQuery(results, summaryOk) ==
    IF Len(results) = 0 THEN "no_search_results"
    ELSE IF ~summaryOk THEN "summary_failed" ELSE "ok"

FileKeys == {GetCacheKey(d) : d \in QADescriptors}

\* The session committed and discarded, and the sessions Set writes for.
FileSession == "S1"
FileWriters == {"S1", NoSession}

\* what an os.ReadFile of the file of k returns
ReadFile(st, k) == IF k \in DOMAIN st THEN st[k] ELSE NoFile

\* how a reader takes what it read
Kind(data) ==
    CASE data = NoFile      -> "absent"
      [] data = CorruptFile -> "broken"
      [] OTHER              -> "entry"

\* Set(key, data, sessionID): the entry is built and marshalled
F_SetMarshal(k, v, s) ==
    /\ fpc["setter"] = "off"
    /\ floc' = [floc EXCEPT !["setter"] =
                   [NoLocals EXCEPT !.filePath = k, !.bytes = CacheEntry(v, now, CacheTTL, s)]]
    /\ fpc' = [fpc EXCEPT !["setter"] = "open"]
    /\ UNCHANGED <<cacheVars, sessionVars, searchVars, observed>>

\* os.WriteFile in Set and in CommitSessionCache: the file is opened with
\* O_CREATE|O_TRUNC and is empty
F_WriteOpen(p) ==
    /\ p \in {"setter", "committer"}
    /\ fpc[p] = "open"
    /\ store' = WriteFile(store, floc[p].filePath, CorruptFile)
    /\ fpc' = [fpc EXCEPT ![p] = "write"]
    /\ UNCHANGED <<now, cacheEnabled, written, last, sessionVars, searchVars, floc, observed>>

\* os.WriteFile: the bytes are written; Set returns, the commit loop goes on
F_WriteData(p) ==
    /\ p \in {"setter", "committer"}
    /\ fpc[p] = "write"
    /\ store' = WriteFile(store, floc[p].filePath, floc[p].bytes)
    /\ fpc' = [fpc EXCEPT ![p] = IF p = "setter" THEN "off" ELSE "loop"]
    /\ floc' = [floc EXCEPT ![p] = [NoLocals EXCEPT !.entries = floc[p].entries]]
    /\ UNCHANGED <<now, cacheEnabled, written, last, sessionVars, searchVars, observed>>

\* Get(key, target): os.ReadFile, json.Unmarshal and the expiry test; Get
\* returns, or goes on to the os.Remove of the expired entry
F_GetRead(k) ==
    LET data == ReadFile(store, k)
    IN  /\ fpc["getter"] = "off"
        /\ observed' = Kind(data)
        /\ IF Kind(data) = "entry" /\ Expired(data, now)
           THEN /\ floc' = [floc EXCEPT !["getter"] = [NoLocals EXCEPT !.filePath = k]]
                /\ fpc' = [fpc EXCEPT !["getter"] = "remove"]
           ELSE UNCHANGED <<fpc, floc>>
        /\ UNCHANGED <<cacheVars, sessionVars, searchVars>>

\* os.ReadDir in CleanExpired, CommitSessionCache and ClearSessionCache
F_ReadDir(p) ==
    /\ p \in {"sweeper", "committer", "discarder"}
    /\ fpc[p] = "off"
    /\ floc' = [floc EXCEPT ![p] = [NoLocals EXCEPT !.entries = DOMAIN store]]
    /\ fpc' = [fpc EXCEPT ![p] = "loop"]
    /\ UNCHANGED <<cacheVars, sessionVars, searchVars, observed>>

\* the condition under which the loop of call p acts on the entry it read
Acts(p, data) ==
    /\ Kind(data) = "entry"
    /\ CASE p = "sweeper"   -> Expired(data, now) \/ PendingStale(data, now)
         [] p = "committer" -> data.sid = FileSession /\ data.pending
         [] p = "discarder" -> data.sid = FileSession

\* one turn of the loop: os.ReadFile and json.Unmarshal of the next file;
\* a file that cannot be read, or is not to be acted on, is passed over
F_LoopRead(p, k) ==
    LET data == ReadFile(store, k)
        commits == Acts(p, data) /\ p = "committer"
    IN  /\ p \in {"sweeper", "committer", "discarder"}
        /\ fpc[p] = "loop"
        /\ k \in floc[p].entries
        /\ observed' = Kind(data)
        /\ floc' = [floc EXCEPT ![p] =
                       [entries |-> floc[p].entries \ {k},
                        filePath |-> IF Acts(p, data) THEN k ELSE NoKey,
                        data |-> IF commits THEN data ELSE NoFile,
                        bytes |-> IF commits
                                  THEN [data EXCEPT !.pending = FALSE, !.sid = NoSession]
                                  ELSE NoFile]]
        /\ fpc' = [fpc EXCEPT ![p] =
                      CASE ~Acts(p, data)  -> "loop"
                        [] p = "committer" -> "open"
                        [] OTHER           -> "remove"]
        /\ UNCHANGED <<cacheVars, sessionVars, searchVars>>

\* os.Remove(filePath) in Get, CleanExpired and ClearSessionCache
F_Remove(p) ==
    /\ p \in {"getter", "sweeper", "discarder"}
    /\ fpc[p] = "remove"
    /\ store' = Remove(store, {floc[p].filePath})
    /\ fpc' = [fpc EXCEPT ![p] = IF p = "getter" THEN "off" ELSE "loop"]
    /\ floc' = [floc EXCEPT ![p] = [NoLocals EXCEPT !.entries = floc[p].entries]]
    /\ UNCHANGED <<now, cacheEnabled, written, last, sessionVars, searchVars, observed>>

\* the loop is over: the call returns
F_LoopEnd(p) ==
    /\ p \in {"sweeper", "committer", "discarder"}
    /\ fpc[p] = "loop"
    /\ floc[p].entries = {}
    /\ fpc' = [fpc EXCEPT ![p] = "off"]
    /\ floc' = [floc EXCEPT ![p] = NoLocals]
    /\ UNCHANGED <<cacheVars, sessionVars, searchVars, observed>>

\* The directory at the start: empty, or holding an entry that FileSession
\* wrote with Set at an earlier hour.
FileInit ==
    /\ now = MaxHours
    /\ store \in {EmptyStore} \cup
                 {WriteFile(EmptyStore, k, CacheEntry("v1", t, CacheTTL, FileSession)) :
                      k \in FileKeys, t \in 0..MaxHours}
    /\ cacheEnabled = TRUE
    /\ written = [k \in Keys |-> NeverWritten]
    /\ last = NoCall
    /\ SessionIdle
    /\ SearchIdle
    /\ FileIdle

FileNext ==
    \/ \E k \in FileKeys, v \in Values, s \in FileWriters : F_SetMarshal(k, v, s)
    \/ \E p \in FileProcs : F_WriteOpen(p)
    \/ \E p \in FileProcs : F_WriteData(p)
    \/ \E k \in FileKeys : F_GetRead(k)
    \/ \E p \in FileProcs : F_ReadDir(p)
    \/ \E p \in FileProcs, k \in FileKeys : F_LoopRead(p, k)
    \/ \E p \in FileProcs : F_Remove(p)
    \/ \E p \in FileProcs : F_LoopEnd(p)

FileSpec == FileInit /\ [][FileNext]_vars

\* ============================================ claims on the concurrent calls

\* C19 (commit under concurrency): when CommitSessionCache writes an entry
\* back, the file is still there and still holds what the commit read: the
\* commit neither re-creates an entry that a sweep, a discard or an expired
\* Get removed meanwhile, nor overwrites a Set made after its read.
C19_CommitWritesWhatItRead ==
    [][(fpc["committer"] = "open" /\ F_WriteOpen("committer")) =>
          /\ floc["committer"].filePath \in DOMAIN store
          /\ store[floc["committer"].filePath] = floc["committer"].data
      ]_vars

\* C20 (atomic entry writes): no os.ReadFile of any cache call returns an
\* empty or partly written file.
C20_NoPartialRead == observed # "broken"

\* ================================================== a crash during a commit
\* One process commits FileSession at the granularity of its file operations
\* and may be killed between any two of them. Nothing else touches the
\* directory meanwhile; after the kill, later processes read entries and run
\* the startup sweep while the clock advances.

\* the process is killed: its call never continues
F_Crash(p) ==
    /\ p = "committer"
    /\ fpc[p] \in {"loop", "open", "write"}
    /\ fpc' = [fpc EXCEPT ![p] = "crashed"]
    /\ UNCHANGED <<cacheVars, sessionVars, searchVars, floc, observed>>

Crashed == fpc["committer"] = "crashed"

\* what a later process does in the directory the crash left
AfterCrashTick == Crashed /\ Tick
AfterCrashSweep == Crashed /\ CleanExpired
AfterCrashGet(k) == Crashed /\ Get(k)

\* The directory at the start: each key has no file, or an entry written at
\* hour 0 for some session, or without a session; the history holds them.
CrashInit ==
    /\ now = 0
    /\ cacheEnabled = TRUE
    /\ \E f \in [Keys -> AnySession \cup {"no file"}] :
          /\ store = [k \in {x \in Keys : f[x] # "no file"} |-> CacheEntry("v1", 0, CacheTTL, f[k])]
          /\ written = [k \in Keys |-> IF f[k] = "no file" THEN NeverWritten
                                       ELSE NewWrite("v1", 0, CacheTTL, f[k])]
    /\ last = NoCall
    /\ SessionIdle
    /\ SearchIdle
    /\ FileIdle

CrashNext ==
    \/ F_ReadDir("committer")
    \/ \E k \in Keys : F_LoopRead("committer", k)
    \/ F_WriteOpen("committer")
    \/ F_WriteData("committer")
    \/ F_LoopEnd("committer")
    \/ F_Crash("committer")
    \/ AfterCrashTick
    \/ AfterCrashSweep
    \/ \E k \in Keys : AfterCrashGet(k)

\* the clock advances and the sweep keeps being run
CrashSpec ==
    CrashInit /\ [][CrashNext]_vars /\ WF_vars(AfterCrashTick) /\ WF_vars(AfterCrashSweep)

\* the entry Set wrote, as the history records it, after its commit
AsCommitted(w) == CacheEntry(w.value, w.time, w.ttl, NoSession)

\* C31 (crash in a commit): once the committing process has been killed,
\* every file still in the directory holds the entry that was written, as it
\* was or, for the committed session, committed; and from then on the
\* directory comes to hold no pending entry.
C31_CrashLeavesCommittedOrPending ==
    /\ [](Crashed =>
             \A k \in DOMAIN store :
                 \/ store[k] = AsWritten(written[k])
                 \/ written[k].sid = FileSession /\ store[k] = AsCommitted(written[k]))
    /\ (Crashed ~> (\A k \in DOMAIN store : Unmarshals(store[k]) /\ ~store[k].pending))

\* ==================================================== the message list
\* One session created by CreateSession, and the AddMessage calls the Q&A
\* loop makes on it.

AddMessageCall ==
    /\ messages # NoMessages
    /\ added < MaxAdded
    /\ added' = added + 1
    /\ messages' = AddMessage(messages, RoleOfCall(added + 1), added + 1)
    /\ UNCHANGED <<cacheVars, sessionID, persist, pc, rlClosed, sessKeys, calls, exitReturn,
                   searchVars, fileVars>>

MessageInit ==
    /\ store = EmptyStore
    /\ now = 0
    /\ cacheEnabled = TRUE
    /\ written = [k \in Keys |-> NeverWritten]
    /\ last = NoCall
    /\ sessionID = StartID
    /\ persist = TRUE
    /\ pc = [p \in Procs |-> "off"]
    /\ rlClosed = FALSE
    /\ sessKeys = {}
    /\ calls = << >>
    /\ exitReturn = "none"
    /\ messages \in {CreateSessionMessages(t) : t \in Titles}
    /\ added = 0
    /\ SearchIdle
    /\ FileIdle

MessageNext == AddMessageCall

MessageSpec == MessageInit /\ [][MessageNext]_vars

\* The conversation part of the list: everything after the two messages
\* CreateSession put there.
Conversation == SubSeq(messages, SystemKept + 1, Len(messages))

\* C39: after any sequence of AddMessage calls on a session that starts with
\* its two initial messages, the session never holds more than 22 messages,
\* the first two messages are never changed, and the remaining messages are
\* the most recently added ones, in the order in which they were added.
C39_BoundedRecentInOrder ==
    /\ [](/\ Len(messages) <= MessageLimit
          /\ Len(messages) >= SystemKept
          /\ added > 0 => Len(Conversation) > 0
          /\ Len(Conversation) <= added
          /\ \A i \in 1..Len(Conversation) :
                Conversation[i] = Message(RoleOfCall(added - Len(Conversation) + i),
                                          added - Len(Conversation) + i))
    /\ [][/\ messages'[1] = messages[1]
          /\ messages'[2] = messages[2]]_vars

\* A call has just cut the list down: the 21st message was added to a list
\* of 22, and the two initial messages are followed by the last 18.
C39_Witness ==
    /\ added = MessageLimit - SystemKept + 1
    /\ Len(messages) = SystemKept + RecentKept
    /\ messages[1] = Message("system", SystemPrompt)
    /\ messages[SystemKept + 1].Content = added - RecentKept + 1

====
